---- MODULE Spec2Model ----
(***************************************************************************)
(* Model of email2student.py: a one-shot pipeline that collects e-mail     *)
(* addresses (file, -e list or stdin), validates them, builds an LDAP OR   *)
(* filter, runs one search, prints one CSV row per returned entry and      *)
(* reports the requested addresses that were not returned.                 *)
(*                                                                         *)
(* Text is modelled as a sequence of one-character strings, so that        *)
(* strip / rstrip / split / join / the address regex are computed on the   *)
(* characters as the Python code computes them.                            *)
(***************************************************************************)
EXTENDS Integers, Sequences, FiniteSets, TLC

VARIABLES input_file, email_list, pc, consulted, emails, search_filter,
          conn, nconn, nsearch, results, out, exit

vars == <<input_file, email_list, pc, consulted, emails, search_filter,
          conn, nconn, nsearch, results, out, exit>>

-----------------------------------------------------------------------------
(* Bounds of the model *)

\* longest -e/--email-list argument list
MaxEmails == 3
\* most lines read from the input file or from standard input
MaxLines == 2
\* most entries the directory returns for one search
MaxResults == 2

-----------------------------------------------------------------------------
(* Text helpers *)

\* characters Python's str.strip()/rstrip() remove (those the inputs use)
Whitespace == {" ", "\t", "\n"}

\* characters matched by \w (those the inputs use)
WordChars == {"a", "b", "c", "d", "u", "v", "A", "B", "D", "E", "J", "K",
              "P", "Q", "R", "S", "h", "i", "l", "m", "n", "o", "t", "e",
              "0", "1", "2", "3", "4", "7", "9", "_"}

RECURSIVE RStrip(_)
\* str.rstrip(): drop trailing whitespace
RStrip(s) ==
    IF s # <<>> /\ s[Len(s)] \in Whitespace
    THEN RStrip(SubSeq(s, 1, Len(s) - 1))
    ELSE s

RECURSIVE LStrip(_)
LStrip(s) ==
    IF s # <<>> /\ s[1] \in Whitespace THEN LStrip(Tail(s)) ELSE s

\* str.strip(): drop leading and trailing whitespace
Strip(s) == LStrip(RStrip(s))

RECURSIVE Join(_, _)
\* sep.join(parts)
Join(sep, parts) ==
    IF parts = <<>> THEN <<>>
    ELSE IF Len(parts) = 1 THEN parts[1]
    ELSE parts[1] \o sep \o Join(sep, Tail(parts))

\* index of the first c in s, 0 when there is none
Find(s, c) ==
    IF \E i \in 1..Len(s) : s[i] = c
    THEN CHOOSE i \in 1..Len(s) : s[i] = c /\ \A j \in 1..(i - 1) : s[j] # c
    ELSE 0

RECURSIVE Split(_, _)
\* s.split(" ", maxsplit): at most maxsplit cuts, each at one single space
Split(s, maxsplit) ==
    LET p == Find(s, " ") IN
    IF maxsplit = 0 \/ p = 0 THEN <<s>>
    ELSE <<SubSeq(s, 1, p - 1)>> \o Split(SubSeq(s, p + 1, Len(s)), maxsplit - 1)

-----------------------------------------------------------------------------
(* email_regex = ^[\w\-.]+@(?:[\w-]+\.)+[\w-]{2,4}$ *)

LocalChars == WordChars \cup {"-", "."}
LabelChars == WordChars \cup {"-"}

\* (?:[\w-]+\.)+[\w-]{2,4} against the whole of d
DomainMatches(d) ==
    \E q \in 2..Len(d) :
        /\ d[q] = "."
        /\ \A i \in (q + 1)..Len(d) : d[i] \in LabelChars
        /\ Len(d) - q \in 2..4
        /\ d[1] \in LabelChars
        /\ \A i \in 1..q : d[i] \in LabelChars \cup {"."}
        /\ \A i \in 1..(q - 1) : ~(d[i] = "." /\ d[i + 1] = ".")

\* the pattern between ^ and the end of the text
CoreMatches(s) ==
    \E p \in 2..Len(s) :
        /\ s[p] = "@"
        /\ \A i \in 1..(p - 1) : s[i] \in LocalChars
        /\ DomainMatches(SubSeq(s, p + 1, Len(s)))

\* re.match(email_regex, email): $ also matches before one final newline
EmailMatches(s) ==
    \/ CoreMatches(s)
    \/ /\ s # <<>>
       /\ s[Len(s)] = "\n"
       /\ CoreMatches(SubSeq(s, 1, Len(s) - 1))

-----------------------------------------------------------------------------
(* Inputs the environment can supply *)

A1 == <<"a", "@", "b", ".", "c", "c">>
A2 == <<"b", "@", "b", ".", "c", "c">>
A3 == <<"c", "@", "b", ".", "c", "c">>
\* an address of the directory that nobody asks for
D1 == <<"d", "@", "b", ".", "c", "c">>
\* final label of one character: fails the pattern
BadAddr == <<"a", "@", "b", ".", "c">>

\* addresses that may be typed after -e
AddrPool == {A1, A2, A3, BadAddr}

\* raw lines of the input file or of standard input, as iterating the
\* stream yields them (line terminator included)
LinePool == { A1 \o <<"\n">>,
              <<" ">> \o A2 \o <<" ", "\n">>,
              <<"\n">> }

SeqsUpTo(S, n) == UNION { [1..k -> S] : k \in 0..n }

\* a byte that is not valid UTF-8: bytes.decode("utf-8") raises on it
InvalidByte == "<ff>"

U1 == <<"u">>
U2 == <<"v">>

\* "42 Smith Jane Q"
G1 == <<"4", "2", " ", "S", "m", "i", "t", "h", " ", "J", "a", "n", "e", " ", "Q">>
\* "1 Doe John  " (trailing blanks)
G2 == <<"1", " ", "D", "o", "e", " ", "J", "o", "h", "n", " ", " ">>
\* "7 Roe Al  B" (two blanks inside the given name)
G3 == <<"7", " ", "R", "o", "e", " ", "A", "l", " ", " ", "B">>
\* "9  Poe Ed" (two blanks after the index)
G4 == <<"9", " ", " ", "P", "o", "e", " ", "E", "d">>
\* "42" (one token)
G6 == <<"4", "2">>
\* "42 Smith" (two tokens)
G7 == <<"4", "2", " ", "S", "m", "i", "t", "h">>

\* a directory entry: attribute name -> list of byte-string values
\* (an attribute the entry lacks reads as the empty list)
Entry(mail, gecos, uid) == [mail |-> mail, gecos |-> gecos, uid |-> uid]

EntryPool ==
    { Entry(<<A1>>, <<G1>>, <<U1>>),
      Entry(<<A2>>, <<G2>>, <<U2>>),
      Entry(<<A3, D1>>, <<G3>>, <<U1>>),
      Entry(<<D1>>, <<G4>>, <<U2>>),
      Entry(<<A2>>, <<G6>>, <<U1>>),
      Entry(<<A3>>, <<G7>>, <<U1>>),
      Entry(<<>>, <<G1>>, <<U1>>),
      Entry(<<A1>>, <<>>, <<U1>>),
      Entry(<<A2>>, <<G1>>, <<>>),
      Entry(<<A3>>, <<G1>>, <<<<InvalidByte>>>>) }

-----------------------------------------------------------------------------
(* The functions of the script *)

\* the filter joined with "(mail=", the clauses left unclosed
parse_list_unclosed(es) ==
    <<"(", "|", "(", "m", "a", "i", "l", "=">>
        \o Join(<<"(", "m", "a", "i", "l", "=">>, es)
        \o <<")", ")">>

\* parse_list_of_emails_into_ldap_filter
parse_list_of_emails_into_ldap_filter(es) ==
    <<"(", "|", "(", "m", "a", "i", "l", "=">>
        \o Join(<<")", "(", "m", "a", "i", "l", "=">>, es)
        \o <<")", ")">>

\* validate_emails returning after its first iteration
validate_emails_first_only(es) ==
    IF es # <<>> /\ ~EmailMatches(es[1]) THEN 1 ELSE 0

\* validate_emails: position of the address the loop exits on, 0 when the
\* loop runs to its end
validate_emails(es) ==
    IF \E i \in 1..Len(es) : ~EmailMatches(es[i])
    THEN CHOOSE i \in 1..Len(es) :
            /\ ~EmailMatches(es[i])
            /\ \A j \in 1..(i - 1) : EmailMatches(es[j])
    ELSE 0

\* [line.strip() for line in file]
StripLines(lines) == [i \in 1..Len(lines) |-> Strip(lines[i])]

\* Python truth value of an optional argument: None, "" and [] are false
Truthy(arg) == arg.given /\ arg.val # <<>>

\* the source get_emails_from_file_or_from_stdin reads
SourceOf(file_arg, list_arg) ==
    IF Truthy(file_arg) THEN "file"
    ELSE IF Truthy(list_arg) THEN "list"
    ELSE "stdin"

\* bytes.decode("utf-8") succeeds
Decodable(v) == \A i \in 1..Len(v) : v[i] # InvalidByte

\* entry.get(attr, [])[0].decode("utf-8") raises IndexError or UnicodeDecodeError
AttrFails(vals) == vals = <<>> \/ ~Decodable(vals[1])

\* index, sn, fn = gecos.split(" ", 2)
SplitGecos(gecos) == Split(gecos, 2)

\* one pass of the loop body of display_results raises
EntryFails(e) ==
    \/ AttrFails(e.mail)
    \/ AttrFails(e.gecos)
    \/ AttrFails(e.uid)
    \/ Len(SplitGecos(e.gecos[1])) # 3

\* f"{index},{sn},{fn},{uid},{mail}"
FormatRow(index, sn, fn, uid, mail) ==
    index \o <<",">> \o sn \o <<",">> \o fn \o <<",">> \o uid \o <<",">> \o mail

\* the line without fn.rstrip()
RowOfUntrimmed(e) ==
    LET parts == SplitGecos(e.gecos[1]) IN
    FormatRow(parts[1], parts[2], parts[3], e.uid[1], e.mail[1])

\* the line display_results prints for an entry
RowOf(e) ==
    LET parts == SplitGecos(e.gecos[1]) IN
    FormatRow(parts[1], parts[2], RStrip(parts[3]), e.uid[1], e.mail[1])

\* number of entries display_results prints before it raises or ends
Printed(res) ==
    IF \E i \in 1..Len(res) : EntryFails(res[i])
    THEN (CHOOSE i \in 1..Len(res) :
            /\ EntryFails(res[i])
            /\ \A j \in 1..(i - 1) : ~EntryFails(res[j])) - 1
    ELSE Len(res)

StdoutLine(text) == [stream |-> "stdout", kind |-> "row", text |-> text]
StderrLine(kind, text) == [stream |-> "stderr", kind |-> kind, text |-> text]

\* display_results: the lines written to stdout
display_results(res) == [i \in 1..Printed(res) |-> StdoutLine(RowOf(res[i]))]

\* mails_from, built by the loop over results in main
MailsFrom(res) == [i \in 1..Len(res) |-> res[i].mail[1]]

\* the address compared with the first returned mail value only
NotFirst(email, mails_from) == mails_from = <<>> \/ mails_from[1] # email

\* email not in mails_from
NotIn(email, mails_from) == \A i \in 1..Len(mails_from) : mails_from[i] # email

RECURSIVE MissingEmails(_, _)
\* the loop over emails in main: the addresses reported missing, in order
MissingEmails(es, mails_from) ==
    IF es = <<>> THEN <<>>
    ELSE (IF NotIn(es[1], mails_from) THEN <<es[1]>> ELSE <<>>)
            \o MissingEmails(Tail(es), mails_from)

\* a check of the two sets of addresses instead of the two counts
SetsDiffer(res, es) ==
    { res[i].mail[1] : i \in 1..Len(res) } # { es[i] : i \in 1..Len(es) }

\* the check main makes before it reports
CountsDiffer(res, es) == Len(res) # Len(es)

\* what main writes to stderr after display_results
Reconciliation(res, es) ==
    IF CountsDiffer(res, es)
    THEN LET missing == MissingEmails(es, MailsFrom(res)) IN
         <<StderrLine("warning", <<>>)>>
            \o [i \in 1..Len(missing) |-> StderrLine("missing", missing[i])]
    ELSE <<>>

-----------------------------------------------------------------------------
(* The run *)

NoArg == [given |-> FALSE, val |-> <<>>]
Arg(v) == [given |-> TRUE, val |-> v]

\* values of -i: absent, the empty string, a path
InputFiles == {NoArg, Arg(<<>>), Arg(<<"f">>)}

\* values of -e: absent, or zero or more addresses
EmailLists == {NoArg} \cup { Arg(l) : l \in SeqsUpTo(AddrPool, MaxEmails) }

\* values of -e tried together with a path after -i, where the list is
\* never looked at
EmailListsWithFile == {NoArg, Arg(<<>>), Arg(<<A1>>), Arg(<<BadAddr>>)}

LineLists == SeqsUpTo(LinePool, MaxLines)
ResultLists == SeqsUpTo(EntryPool, MaxResults)

Init ==
    /\ input_file \in InputFiles
    /\ email_list \in IF Truthy(input_file) THEN EmailListsWithFile ELSE EmailLists
    /\ pc = "start"
    /\ consulted = {}
    /\ emails = <<>>
    /\ search_filter = <<>>
    /\ conn = "none"
    /\ nconn = 0
    /\ nsearch = 0
    /\ results = <<>>
    /\ out = <<>>
    /\ exit = -1

\* sys.exit(1), or an exception that reaches the top level
Fatal == pc' = "failed" /\ exit' = 1

\* open(args.input_file) raises: the path does not exist or is unreadable
OpenFails ==
    /\ pc = "start"
    /\ Truthy(input_file)
    /\ consulted' = {"file"}
    /\ Fatal
    /\ UNCHANGED <<input_file, email_list, emails, search_filter, conn,
                   nconn, nsearch, results, out>>

\* get_emails_from_file_or_from_stdin, validate_emails included; lines is
\* what the file or standard input holds
get_emails_from_file_or_from_stdin ==
    /\ pc = "start"
    /\ \E lines \in LineLists :
        LET src == SourceOf(input_file, email_list)
            es == IF src = "list" THEN email_list.val ELSE StripLines(lines)
            bad == validate_emails(es)
        IN  /\ consulted' = {src}
            /\ emails' = es
            /\ IF bad = 0
               THEN /\ pc' = "collected"
                    /\ UNCHANGED <<out, exit>>
               ELSE /\ out' = Append(out, StderrLine("invalid", es[bad]))
                    /\ Fatal
    /\ UNCHANGED <<input_file, email_list, search_filter, conn, nconn,
                   nsearch, results>>

\* main: search_filter = parse_list_of_emails_into_ldap_filter(emails)
BuildFilter ==
    /\ pc = "collected"
    /\ search_filter' = parse_list_of_emails_into_ldap_filter(emails)
    /\ pc' = "filtered"
    /\ UNCHANGED <<input_file, email_list, consulted, emails, conn, nconn,
                   nsearch, results, out, exit>>

\* make_ldap_connection
make_ldap_connection ==
    /\ pc = "filtered"
    /\ conn' = "open"
    /\ nconn' = nconn + 1
    /\ pc' = "connected"
    /\ UNCHANGED <<input_file, email_list, consulted, emails, search_filter,
                   nsearch, results, out, exit>>

\* conn.search_s returns the entries the directory answers with
Search ==
    /\ pc = "connected"
    /\ nsearch' = nsearch + 1
    /\ \E res \in ResultLists : results' = res
    /\ pc' = "searched"
    /\ UNCHANGED <<input_file, email_list, consulted, emails, search_filter,
                   conn, nconn, out, exit>>

\* conn.search_s raises (server down, TLS failure, bad filter): the
\* exception leaves main, conn.unbind() is not reached
SearchFails ==
    /\ pc = "connected"
    /\ nsearch' = nsearch + 1
    /\ Fatal
    /\ UNCHANGED <<input_file, email_list, consulted, emails, search_filter,
                   conn, nconn, results, out>>

\* main going on without conn.unbind()
UnbindSkipped ==
    /\ pc = "searched"
    /\ pc' = "unbound"
    /\ UNCHANGED <<input_file, email_list, consulted, emails, search_filter,
                   conn, nconn, nsearch, results, out, exit>>

\* conn.unbind()
Unbind ==
    /\ pc = "searched"
    /\ conn' = "unbound"
    /\ pc' = "unbound"
    /\ UNCHANGED <<input_file, email_list, consulted, emails, search_filter,
                   nconn, nsearch, results, out, exit>>

\* display_results with the exception of a failing entry swallowed
DisplayResultsSwallowing ==
    /\ pc = "unbound"
    /\ out' = out \o display_results(results)
    /\ pc' = "displayed"
    /\ UNCHANGED <<input_file, email_list, consulted, emails, search_filter,
                   conn, nconn, nsearch, results, exit>>

\* display_results(results): rows up to the first entry that raises
DisplayResults ==
    /\ pc = "unbound"
    /\ out' = out \o display_results(results)
    /\ IF Printed(results) = Len(results)
       THEN pc' = "displayed" /\ UNCHANGED exit
       ELSE Fatal
    /\ UNCHANGED <<input_file, email_list, consulted, emails, search_filter,
                   conn, nconn, nsearch, results>>

\* main, from the count check to the end
Reconcile ==
    /\ pc = "displayed"
    /\ out' = out \o Reconciliation(results, emails)
    /\ pc' = "done"
    /\ exit' = 0
    /\ UNCHANGED <<input_file, email_list, consulted, emails, search_filter,
                   conn, nconn, nsearch, results>>

Next ==
    \/ OpenFails
    \/ get_emails_from_file_or_from_stdin
    \/ BuildFilter
    \/ make_ldap_connection
    \/ Search
    \/ SearchFails
    \/ Unbind
    \/ DisplayResults
    \/ Reconcile

Spec == Init /\ [][Next]_vars

-----------------------------------------------------------------------------
(* Observations used by the properties *)

Terminated == pc \in {"done", "failed"}

\* parse_list_of_emails_into_ldap_filter has been called
FilterBuilt == search_filter # <<>>

\* display_results has been called (and has returned or raised)
DisplayRan == pc \in {"displayed", "done"} \/ (pc = "failed" /\ conn = "unbound")

IsRow(line) == line.kind = "row"
IsMissing(line) == line.kind = "missing"

\* the record lines written so far, in order
Rows == SelectSeq(out, IsRow)

\* the addresses named by the missing-address diagnostics so far, in order
MissingDiagnostics ==
    LET lines == SelectSeq(out, IsMissing) IN
    [i \in 1..Len(lines) |-> lines[i].text]

\* the mail values of the returned entries
ReturnedMails == { results[i].mail[1] : i \in 1..Len(results) }

AbsentFromResults(email) == email \notin ReturnedMails

-----------------------------------------------------------------------------
(* C1 *)

SomeInvalid == \E i \in 1..Len(emails) : ~EmailMatches(emails[i])

\* C1: when some collected address fails the pattern, the run has ended
\* with exit status 1, with the one invalid-address diagnostic as its only
\* output, and no filter was built, no connection made, no search issued.
C1_InvalidAddressAborts ==
    (pc # "start" /\ SomeInvalid) =>
        /\ pc = "failed"
        /\ exit = 1
        /\ ~FilterBuilt
        /\ nconn = 0
        /\ conn = "none"
        /\ nsearch = 0
        /\ results = <<>>
        /\ Len(out) = 1
        /\ out[1].kind = "invalid"
        /\ ~EmailMatches(out[1].text)

\* a valid address followed by an invalid one was collected
C1_Witness ==
    /\ pc = "failed"
    /\ Len(emails) >= 2
    /\ EmailMatches(emails[1])
    /\ ~EmailMatches(emails[2])

-----------------------------------------------------------------------------
(* C2 *)

\* C2: in every terminal state of a run that created the connection, the
\* connection has been released by unbind.
C2_ConnectionAlwaysReleased ==
    (Terminated /\ nconn > 0) => conn = "unbound"

-----------------------------------------------------------------------------
(* C3 *)

-----------------------------------------------------------------------------
(* C4 *)

ExactlyOneMissing ==
    /\ Len(MissingDiagnostics) = 1
    /\ \E i \in 1..Len(emails) : emails[i] = MissingDiagnostics[1]
    /\ AbsentFromResults(MissingDiagnostics[1])

\* C4 as stated: 3 requested addresses and 2 returned entries always give
\* exactly one missing-address diagnostic, naming the absent address.
C4_ThreeTwoGivesOne ==
    (pc = "done" /\ Len(emails) = 3 /\ Len(results) = 2) => ExactlyOneMissing

Distinct(seq) == \A i, j \in 1..Len(seq) : i # j => seq[i] # seq[j]

\* C4 amended: 3 pairwise distinct requested addresses and 2 returned
\* entries whose mail values are two distinct requested addresses give
\* exactly one missing-address diagnostic, naming the absent address.
C4_ThreeTwoDistinctGivesOne ==
    ( /\ pc = "done"
      /\ Len(emails) = 3
      /\ Len(results) = 2
      /\ Distinct(emails)
      /\ results[1].mail[1] # results[2].mail[1]
      /\ \A k \in 1..2 : \E i \in 1..3 : emails[i] = results[k].mail[1] )
    => ExactlyOneMissing

C4_Witness ==
    /\ pc = "done"
    /\ Len(emails) = 3
    /\ Len(results) = 2
    /\ Distinct(emails)
    /\ results[1].mail[1] # results[2].mail[1]
    /\ \A k \in 1..2 : \E i \in 1..3 : emails[i] = results[k].mail[1]
    /\ Len(MissingDiagnostics) = 1

-----------------------------------------------------------------------------
(* C5 *)

\* C5: once the addresses are collected, the one source consulted is the
\* file when -i is present, else the list when -e is present (even with
\* zero addresses), else standard input.
C5_SourceByPresence ==
    pc # "start" =>
        consulted = { IF input_file.given THEN "file"
                      ELSE IF email_list.given THEN "list"
                      ELSE "stdin" }

-----------------------------------------------------------------------------
(* C6 *)

\* C6: a run whose source yields zero addresses fails before the filter is
\* built, so the filter is never built from the empty sequence.
C6_NoEmptySequenceToBuilder ==
    (pc # "start" /\ emails = <<>>) => (pc = "failed" /\ ~FilterBuilt)

-----------------------------------------------------------------------------
(* C7 *)

RECURSIVE Clauses(_)
\* one (mail=address) clause per position
Clauses(es) ==
    IF es = <<>> THEN <<>>
    ELSE <<"(", "m", "a", "i", "l", "=">> \o es[1] \o <<")">> \o Clauses(Tail(es))

Count(s, c) == Cardinality({ i \in 1..Len(s) : s[i] = c })

\* C7: the filter built from a non-empty sequence of valid addresses is
\* "(|" followed by one (mail=address) clause per position, in order,
\* followed by ")", and holds no other parenthesis.
C7_FilterIsOneOrGroup ==
    (FilterBuilt /\ emails # <<>>) =>
        /\ search_filter = <<"(", "|">> \o Clauses(emails) \o <<")">>
        /\ Count(search_filter, "(") = Len(emails) + 1
        /\ Count(search_filter, ")") = Len(emails) + 1
        /\ Count(search_filter, "|") = 1

\* a filter was built from three addresses, two of them equal
C7_Witness ==
    /\ FilterBuilt
    /\ Len(emails) = 3
    /\ emails[1] = emails[2]
    /\ emails[2] # emails[3]

-----------------------------------------------------------------------------
(* C8 *)

NoSpace(s) == \A i \in 1..Len(s) : s[i] # " "

\* rem with its trailing whitespace removed and nothing else changed
TrailingTrimmed(rem) ==
    LET keep == { k \in 1..Len(rem) : rem[k] \notin Whitespace }
        last == IF keep = {} THEN 0
                ELSE CHOOSE k \in keep : \A m \in keep : m <= k
    IN  SubSeq(rem, 1, last)

\* the line that carries the three parts of a gecos value and the entry's
\* uid and mail
LineFor(index, sn, fn, e) ==
    index \o <<",">> \o sn \o <<",">> \o fn \o <<",">>
        \o e.uid[1] \o <<",">> \o e.mail[1]

\* index of the first position of s from `from` on that is (is not) a blank,
\* Len(s) + 1 when there is none
NextBlank(s, from) ==
    IF \E i \in from..Len(s) : s[i] = " "
    THEN CHOOSE i \in from..Len(s) : s[i] = " " /\ \A j \in from..(i - 1) : s[j] # " "
    ELSE Len(s) + 1

NextNonBlank(s, from) ==
    IF \E i \in from..Len(s) : s[i] # " "
    THEN CHOOSE i \in from..Len(s) : s[i] # " " /\ \A j \in from..(i - 1) : s[j] = " "
    ELSE Len(s) + 1

\* C8 as stated: when gecos is an index token, a surname token and a
\* remainder, separated by runs of one or more blanks, the row carries the
\* first token, the second token and the remainder without its trailing
\* whitespace.
C8_SplitOnWhitespaceRuns ==
    \A i \in 1..Len(Rows) :
        LET g  == results[i].gecos[1]
            b1 == NextBlank(g, 1)
            t2 == NextNonBlank(g, b1)
            b2 == NextBlank(g, t2)
            t3 == NextNonBlank(g, b2)
        IN  (b1 > 1 /\ t2 <= Len(g) /\ t3 <= Len(g)) =>
                Rows[i].text =
                    LineFor(SubSeq(g, 1, b1 - 1),
                            SubSeq(g, t2, b2 - 1),
                            TrailingTrimmed(SubSeq(g, t3, Len(g))),
                            results[i])

\* C8 amended: when gecos is a non-empty index without blank, one blank, a
\* non-empty surname without blank, one blank and a remainder, the row
\* carries the index, the surname and the whole remainder (inner blanks
\* kept) without its trailing whitespace.
C8_SplitOnFirstTwoSpaces ==
    \A i \in 1..Len(Rows) :
        LET g == results[i].gecos[1] IN
        \A p, q \in 1..Len(g) :
            ( /\ 1 < p
              /\ p + 1 < q
              /\ g[p] = " "
              /\ g[q] = " "
              /\ NoSpace(SubSeq(g, 1, p - 1))
              /\ NoSpace(SubSeq(g, p + 1, q - 1)) )
            => Rows[i].text =
                    LineFor(SubSeq(g, 1, p - 1),
                            SubSeq(g, p + 1, q - 1),
                            TrailingTrimmed(SubSeq(g, q + 1, Len(g))),
                            results[i])

\* a row was printed for "1 Doe John  " and one for "7 Roe Al  B"
C8_Witness ==
    /\ Len(Rows) = 2
    /\ results[1].gecos[1] = G2
    /\ results[2].gecos[1] = G3
    /\ Rows[2].text = <<"7", ",", "R", "o", "e", ",", "A", "l", " ", " ", "B", ",">>
                        \o U1 \o <<",">> \o A3

-----------------------------------------------------------------------------
(* C9 *)

\* the entry lacks mail, gecos or uid, or its gecos has no blank at all
\* (fewer than two space-separated tokens)
Malformed(e) ==
    \/ e.mail = <<>>
    \/ e.gecos = <<>>
    \/ e.uid = <<>>
    \/ NoSpace(e.gecos[1])

\* C9: once display_results has run on results holding a malformed entry
\* at position k, the run has failed with exit status 1, fewer than k rows
\* were printed, they are the rows of the entries before it in order, and
\* nothing of the reconciliation step was written.
C9_MalformedEntryIsFatal ==
    \A k \in 1..Len(results) :
        (DisplayRan /\ Malformed(results[k])) =>
            /\ pc = "failed"
            /\ exit = 1
            /\ Len(Rows) < k
            /\ out = [i \in 1..Len(Rows) |-> StdoutLine(RowOf(results[i]))]

\* a well-formed entry followed by a malformed one was displayed
C9_Witness ==
    /\ DisplayRan
    /\ Len(results) = 2
    /\ ~Malformed(results[1])
    /\ Malformed(results[2])
    /\ Len(Rows) = 1

-----------------------------------------------------------------------------
(* C10 *)

\* C10: at most one connection and one search per run; whenever a record
\* line has been written, the one connection was made, searched once and
\* released; no record line follows a missing-address diagnostic.
C10_OneSessionClosedBeforeOutput ==
    /\ nconn <= 1
    /\ nsearch <= 1
    /\ Rows # <<>> => (nconn = 1 /\ nsearch = 1 /\ conn = "unbound")
    /\ \A i, j \in 1..Len(out) :
        (IsRow(out[i]) /\ IsMissing(out[j])) => i < j

\* record lines and a missing-address diagnostic were written
C10_Witness ==
    /\ pc = "done"
    /\ Len(Rows) = 2
    /\ Len(MissingDiagnostics) >= 1

====
